---- MODULE Spec2Model ----
(***************************************************************************)
(* Model of the notebook "Sequence Classification with LSTM Recurrent      *)
(* Neural Networks with Keras" (src/unnamed/part_000).                     *)
(*                                                                         *)
(* The notebook is glue around the Keras API: imdb.load_data,              *)
(* sequence.pad_sequences, Sequential/add/compile, Model.fit and           *)
(* Model.evaluate.  Each call is modelled by what the library routine does *)
(* for the arguments the notebook passes (all other arguments at their     *)
(* library defaults).  Numerical content (the forward pass, the Adam       *)
(* update) is abstracted: learned parameters are a symbolic value made of  *)
(* the initial draw and the list of batches applied to it.                 *)
(***************************************************************************)
EXTENDS Integers, Sequences, FiniteSets, TLC

(***************************************************************************)
(* Bounds of the model.                                                    *)
(***************************************************************************)
MaxTok == 3      \* distinct tokens: ids 0..MaxTok for pad_sequences, word ranks of the data file
MaxRawLen == 4   \* longest raw review enumerated for pad_sequences
MaxL == 3        \* largest maxlen enumerated for pad_sequences
MaxN == 3        \* reviews per partition (25000 in the IMDB data)
ReviewLen == 2   \* the value given to max_review_length (500 in the notebook)
MaxEpochs == 2   \* epochs passed to fit range over 0..MaxEpochs
MaxBatch == 2    \* batch_size passed to fit ranges over 1..MaxBatch
EvalBatch == 2   \* batch size of evaluate (the library default is 32)
WMod == 3        \* learned weights are abstracted to a value in 0..WMod-1

VARIABLES
    seq,        \* one raw review handed to pad_sequences
    maxlen,     \* the maxlen argument
    padded,     \* pad_sequences([seq], maxlen)[0]
    repadded,   \* pad_sequences([padded], maxlen)[0]
    npc         \* position of the pad_sequences driver

normvars == <<seq, maxlen, padded, repadded, npc>>

VARIABLES
    pc,                 \* statement of the notebook about to run
    section,            \* 1 simple LSTM, 2 LSTM with dropout, 3 CNN + LSTM
    numpy_seed,         \* seed of numpy's global generator, 0 while unset
    dataset,            \* contents of the IMDB data the loader reads
    X_train, y_train,   \* notebook globals
    X_test, y_test,
    max_review_length,  \* notebook global, 0 while unset
    model,              \* the Sequential model: layer stack and input length
    weights,            \* learned parameters of model (abstract value)
    iterations,         \* optimizer.iterations: update steps applied so far
    epochs, batch_size, \* arguments of the running fit call
    validation_data,    \* TRUE when fit was given validation_data
    epoch,              \* epochs of the running fit call completed
    order,              \* this epoch's order of the training indices
    step,               \* batches of this epoch completed
    batches,            \* index lists of the batches of this epoch so far
    fed,                \* the reviews handed to the model by the last step
    history,            \* History of the running fit call, one record per epoch
    calls,              \* the fit calls made on model so far: epochs, batch_size
    scores              \* result of model.evaluate

datavars == <<dataset, X_train, y_train, X_test, y_test, max_review_length>>
modelvars == <<model, weights, iterations>>
fitvars == <<epochs, batch_size, validation_data, epoch, order, step, batches,
             history, calls>>
pipevars == <<pc, section, numpy_seed, datavars, modelvars, fitvars, fed,
              scores>>
vars == <<normvars, pipevars>>

(***************************************************************************)
(* Python sequence slicing s[start:stop] with step 1: negative indices     *)
(* count from the end, both ends are clamped to 0..len(s).  Indices here   *)
(* are Python's (0-based); the result is a TLA+ sequence.                  *)
(***************************************************************************)
PyIndex(i, n) ==
    LET j == IF i < 0 THEN i + n ELSE i
    IN  IF j < 0 THEN 0 ELSE IF j > n THEN n ELSE j

PySlice(s, start, stop) ==
    LET a == PyIndex(start, Len(s))
        b == PyIndex(stop, Len(s))
    IN  IF b <= a THEN <<>> ELSE SubSeq(s, a + 1, b)

(***************************************************************************)
(* keras.preprocessing.sequence.pad_sequences as the notebook calls it:    *)
(* pad_sequences(X, maxlen=max_review_length), so padding, truncating and  *)
(* value are the library defaults 'pre', 'pre' and 0.                      *)
(***************************************************************************)
padding_post == "post"
padding == "pre"

truncating_post == "post"
truncating == "pre"

value == 0

\* truncation that also cuts a review that is exactly n long (s[-n+1:])
Truncate_offbyone(s, n) ==
    IF Len(s) >= n THEN PySlice(s, 1 - n, Len(s)) ELSE s

\* 'post' truncation that keeps one token too few (s[:n-1]) once len(s) >= n
Truncate_dropnewest(s, n) ==
    IF Len(s) >= n THEN PySlice(s, 0, n - 1) ELSE s

\* trunc = s[-maxlen:] ('pre') or s[:maxlen] ('post')
Truncate(s, n) ==
    IF truncating = "pre" THEN PySlice(s, -n, Len(s))
    ELSE PySlice(s, 0, n)

\* x = full(maxlen, value); x[-len(trunc):] = trunc ('pre')
\*                          x[:len(trunc)]  = trunc ('post')
Place(trunc, n) ==
    LET k == Len(trunc)
    IN  IF padding = "pre"
        THEN [i \in 1..n |-> IF i > n - k THEN trunc[i - (n - k)] ELSE value]
        ELSE [i \in 1..n |-> IF i <= k THEN trunc[i] ELSE value]

\* one row of pad_sequences: an empty review leaves the row at value
pad_one(s, n) ==
    IF Len(s) = 0 THEN [i \in 1..n |-> value]
    ELSE Place(Truncate(s, n), n)

\* padding skipped: the review is returned as loaded
pad_sequences_skipped(X, n) == X

pad_sequences(X, n) == [i \in DOMAIN X |-> pad_one(X[i], n)]

(***************************************************************************)
(* Driver for pad_sequences on one review: the inputs are drawn in the     *)
(* initial state, Normalize applies the routine once, Renormalize applies  *)
(* it to its own output.                                                   *)
(***************************************************************************)
SeqsUpTo(n, S) == UNION {[1..k -> S] : k \in 0..n}

\* the notebook is not running
PipelineOff ==
    /\ pc = "off"
    /\ section = 0
    /\ numpy_seed = 0
    /\ dataset = <<>>
    /\ X_train = <<>> /\ y_train = <<>> /\ X_test = <<>> /\ y_test = <<>>
    /\ max_review_length = 0
    /\ model = <<>>
    /\ weights = 0
    /\ iterations = 0
    /\ epochs = 0 /\ batch_size = 0 /\ validation_data = FALSE
    /\ epoch = 0 /\ order = <<>> /\ step = 0 /\ batches = <<>>
    /\ fed = <<>>
    /\ history = <<>>
    /\ calls = <<>>
    /\ scores = <<>>

NormInit ==
    /\ PipelineOff
    /\ seq \in SeqsUpTo(MaxRawLen, 0..MaxTok)
    /\ maxlen \in 1..MaxL
    /\ padded = <<>>
    /\ repadded = <<>>
    /\ npc = "in"

Normalize ==
    /\ npc = "in"
    /\ padded' = pad_sequences(<<seq>>, maxlen)[1]
    /\ npc' = "out"
    /\ UNCHANGED <<seq, maxlen, repadded, pipevars>>

Renormalize ==
    /\ npc = "out"
    /\ repadded' = pad_sequences(<<padded>>, maxlen)[1]
    /\ npc' = "again"
    /\ UNCHANGED <<seq, maxlen, padded, pipevars>>

NormNext == Normalize \/ Renormalize

SpecNorm == NormInit /\ [][NormNext]_vars

(***************************************************************************)
(* The IMDB data file that imdb.load_data(nb_words=top_words) reads: two   *)
(* partitions of the same size, each a list of reviews (lists of word      *)
(* ranks, some of them beyond the cap) with one 0/1 label per review.  The *)
(* loaded reviews are of every length from 1 to MaxRawLen in turn; the     *)
(* test labels are free.                                                   *)
(***************************************************************************)
top_words == 5000
embedding_vecor_length == 32

\* defaults of load_data that the notebook does not override
start_char == 1
oov_char == 2
index_from == 3
skip_top == 0

\* word ranks of the data file: a frequent word, and words whose index
\* (rank + index_from) lies just below, at and above the cap top_words
Rank(j) == IF j = 1 THEN 1 ELSE top_words - index_from - 3 + j

\* review k of the data file, of length 0 to MaxRawLen - 1 (the loader
\* puts start_char in front)
Review(k) ==
    [i \in 1..((k - 1) % MaxRawLen) |-> Rank(((i + k) % MaxTok) + 1)]

\* a loader that keeps every word index as it is
Cap_off(w, num_words) == w

\* xs = [[w if skip_top <= w < num_words else oov_char for w in x] ...]
Cap(w, num_words) ==
    IF skip_top <= w /\ w < num_words THEN w ELSE oov_char

\* imdb.load_data(num_words) on the reviews xs of the data file: start_char
\* in front, every rank moved up by index_from, then the cap (the loader's
\* own fixed-seed reordering of the file is taken as the file's order)
load_data(xs, num_words) ==
    [i \in DOMAIN xs |->
       [j \in 1..(Len(xs[i]) + 1) |->
          IF j = 1 THEN Cap(start_char, num_words)
          ELSE Cap(xs[i][j - 1] + index_from, num_words)]]

Datasets ==
    UNION {
      { [x_train |-> [i \in 1..n |-> Review(i)],
         y_train |-> [i \in 1..n |-> i % 2],
         x_test  |-> [i \in 1..n |-> Review(i + 1)],
         y_test  |-> yt] : yt \in [1..n -> {0, 1}] } : n \in 1..MaxN }

(***************************************************************************)
(* The three layer stacks of the notebook.  A layer is                     *)
(* [type, size, arg]: Embedding(arg, size), LSTM(size), Dense(size),       *)
(* Dropout(arg / 100), Conv1D(filters = size, kernel_size = arg),          *)
(* MaxPooling1D(pool_size = arg).                                          *)
(***************************************************************************)
Layer(t, s, a) == [type |-> t, size |-> s, arg |-> a]

Embedding == Layer("Embedding", embedding_vecor_length, top_words)

LayerStack(sec) ==
    CASE sec = 1 ->
           <<Embedding, Layer("LSTM", 100, 0), Layer("Dense", 1, 0)>>
      [] sec = 2 ->
           <<Embedding, Layer("Dropout", 0, 20), Layer("LSTM", 100, 0),
             Layer("Dropout", 0, 20), Layer("Dense", 1, 0)>>
      [] sec = 3 ->
           <<Embedding, Layer("Conv1D", 32, 3), Layer("MaxPooling1D", 0, 2),
             Layer("LSTM", 100, 0), Layer("Dense", 1, 0)>>

\* Sequential() ... add(Embedding(..., input_length=max_review_length)) ...
Sequential(sec, input_length) ==
    [layers |-> LayerStack(sec), input_length |-> input_length]

HasDropout(m) == \E i \in DOMAIN m.layers : m.layers[i].type = "Dropout"

(***************************************************************************)
(* model.summary(): the output shape of every layer (without the batch     *)
(* axis) and its number of parameters.  A shape is <<length, width>> for a *)
(* sequence of vectors and <<width>> for one vector.                       *)
(***************************************************************************)
\* a convolution without padding
conv_padding_valid == "valid"

\* Conv1D(..., padding='same', ...)
conv_padding == "same"

\* output length of Conv1D with stride 1 on n positions, kernel_size k
ConvLength(n, k) == IF conv_padding = "same" THEN n ELSE n - k + 1

Last(s) == s[Len(s)]

OutputShape(layer, in) ==
    CASE layer.type = "Embedding"    -> <<in[1], layer.size>>
      [] layer.type = "Conv1D"       -> <<ConvLength(in[1], layer.arg), layer.size>>
      [] layer.type = "MaxPooling1D" -> <<in[1] \div layer.arg, in[2]>>
      [] layer.type = "LSTM"         -> <<layer.size>>
      [] layer.type = "Dense"        -> <<layer.size>>
      [] layer.type = "Dropout"      -> in

ParamCount(layer, in) ==
    CASE layer.type = "Embedding"    -> layer.arg * layer.size
      [] layer.type = "Conv1D"       ->
           layer.arg * Last(in) * layer.size + layer.size
      [] layer.type = "MaxPooling1D" -> 0
      [] layer.type = "LSTM"         ->
           4 * layer.size * (Last(in) + layer.size + 1)
      [] layer.type = "Dense"        -> layer.size * (Last(in) + 1)
      [] layer.type = "Dropout"      -> 0

\* the output shapes of the layers fed with an input of shape in
RECURSIVE Shapes(_, _)
Shapes(layers, in) ==
    IF layers = <<>> THEN <<>>
    ELSE <<OutputShape(Head(layers), in)>>
           \o Shapes(Tail(layers), OutputShape(Head(layers), in))

\* the "Param #" column
RECURSIVE ParamCounts(_, _)
ParamCounts(layers, in) ==
    IF layers = <<>> THEN <<>>
    ELSE <<ParamCount(Head(layers), in)>>
           \o ParamCounts(Tail(layers), OutputShape(Head(layers), in))

\* "Total params"
RECURSIVE TotalParams(_, _)
TotalParams(layers, in) ==
    IF layers = <<>> THEN 0
    ELSE ParamCount(Head(layers), in)
           + TotalParams(Tail(layers), OutputShape(Head(layers), in))

(***************************************************************************)
(* The numerical library, abstracted.  Forward is the sigmoid output of    *)
(* the network in inference mode, in thousandths; Adam is one optimizer    *)
(* update from a batch (mask stands for the dropout masks drawn for it).   *)
(***************************************************************************)
RECURSIVE SumSeq(_)
SumSeq(s) == IF Len(s) = 0 THEN 0 ELSE s[1] + SumSeq(Tail(s))

ProbLevels == <<250, 500, 750>>

Forward(w, x) == ProbLevels[((w + SumSeq(x)) % 3) + 1]

Digest(xb, yb) ==
    SumSeq([i \in DOMAIN xb |-> SumSeq(xb[i]) + yb[i]])

Adam(w, xb, yb, mask) ==
    (w + 1 + ((Digest(xb, yb) + mask) % (WMod - 1))) % WMod

\* metrics=['accuracy'] with a one-unit sigmoid output and binary
\* cross-entropy: binary accuracy, predicted label = (y_pred > 0.5)
threshold == 500

PredLabel_atleast(p) == IF p >= threshold THEN 1 ELSE 0

PredLabel(p) == IF p > threshold THEN 1 ELSE 0

Correct(w, xb, yb) ==
    Cardinality({i \in DOMAIN xb : PredLabel(Forward(w, xb[i])) = yb[i]})

\* one training step on a batch: gradient update, metric contribution
train_step(w, xb, yb, mask) ==
    [weights |-> Adam(w, xb, yb, mask),
     correct |-> Correct(w, xb, yb),
     count   |-> Len(xb)]

\* an evaluation step that runs the training step
test_step_training(w, xb, yb, mask) == train_step(w, xb, yb, mask)

\* one evaluation step on a batch: forward pass only, dropout disabled
test_step(w, xb, yb, mask) ==
    [weights |-> w,
     correct |-> Correct(w, xb, yb),
     count   |-> Len(xb)]

(***************************************************************************)
(* Batching of n samples: ceil(n / b) steps; the first n div b batches     *)
(* hold b indices of the epoch's order each, the remainder forms a last,   *)
(* smaller batch.                                                          *)
(***************************************************************************)
Steps_floor(n, b) == n \div b

Steps(n, b) == (n + b - 1) \div b

\* the partial batch widened to a full one by stepping back in the order
BatchIndices_overlap(ord, k, b) ==
    LET n == Len(ord)
        hi == IF (k + 1) * b < n THEN (k + 1) * b ELSE n
        lo == IF hi - b + 1 < 1 THEN 1 ELSE hi - b + 1
    IN  SubSeq(ord, lo, hi)

BatchIndices(ord, k, b) ==
    LET n == Len(ord)
        full == n \div b
    IN  IF k < full THEN SubSeq(ord, k * b + 1, (k + 1) * b)
        ELSE SubSeq(ord, full * b + 1, n)

Gather(X, idx) == [j \in DOMAIN idx |-> X[idx[j]]]

Identity(n) == [i \in 1..n |-> i]

Perms(n) ==
    {f \in [1..n -> 1..n] : \A i, j \in 1..n : i # j => f[i] # f[j]}

\* the epoch loop as a do-while: a first epoch runs whatever epochs is
MoreEpochs_dowhile(ep, eps) == ep < eps \/ ep = 0

\* for epoch in range(initial_epoch, epochs), initial_epoch = 0
MoreEpochs(ep, eps) == ep < eps

\* a validation pass after every batch instead of after the last one
AfterBatch_everybatch(done, total, val) ==
    IF val THEN "validate" ELSE IF done < total THEN "step" ELSE "epochend"

\* what follows a batch: the next batch, or at the end of the epoch the
\* validation pass when validation_data was given
AfterBatch(done, total, val) ==
    IF done < total THEN "step"
    ELSE IF val THEN "validate" ELSE "epochend"

\* fit(shuffle=True), the default: each epoch draws a new order
EpochOrders(n) == Perms(n)

(***************************************************************************)
(* The evaluation loop shared by model.evaluate and the validation pass of *)
(* fit: the samples are taken in their stored order, batch by batch; the   *)
(* accuracy metric accumulates total (correct predictions) and count       *)
(* (samples seen) and its result is total / count.                         *)
(***************************************************************************)
RECURSIVE TestLoop(_, _, _, _, _, _)
TestLoop(X, y, w, b, k, acc) ==
    IF k >= Steps(Len(X), b) THEN acc
    ELSE LET idx == BatchIndices(Identity(Len(X)), k, b)
             r == test_step(acc.weights, Gather(X, idx), Gather(y, idx), 0)
         IN  TestLoop(X, y, w, b, k + 1,
                      [weights |-> r.weights,
                       total   |-> acc.total + r.correct,
                       count   |-> acc.count + r.count,
                       fed     |-> acc.fed \o Gather(X, idx)])

\* an evaluation loop that ends with an optimizer update on its data
Evaluation_fitting(X, y, w, b) ==
    LET r == TestLoop(X, y, w, b, 0,
                      [weights |-> w, total |-> 0, count |-> 0, fed |-> <<>>])
    IN  [r EXCEPT !.weights = Adam(w, X, y, 0)]

Evaluation(X, y, w, b) ==
    TestLoop(X, y, w, b, 0,
             [weights |-> w, total |-> 0, count |-> 0, fed |-> <<>>])

(***************************************************************************)
(* The notebook, statement by statement.  The three sections run one       *)
(* after the other, each through import, load, pad, build, fit, evaluate.  *)
(***************************************************************************)
Init ==
    /\ seq = <<>> /\ maxlen = 1 /\ padded = <<>> /\ repadded = <<>>
    /\ npc = "off"
    /\ pc = "import"
    /\ section = 1
    /\ numpy_seed = 0
    /\ dataset \in Datasets
    /\ X_train = <<>> /\ y_train = <<>> /\ X_test = <<>> /\ y_test = <<>>
    /\ max_review_length = 0
    /\ model = <<>>
    /\ weights = 0
    /\ iterations = 0
    /\ epochs = 0 /\ batch_size = 0 /\ validation_data = FALSE
    /\ epoch = 0 /\ order = <<>> /\ step = 0 /\ batches = <<>>
    /\ fed = <<>>
    /\ history = <<>>
    /\ calls = <<>>
    /\ scores = <<>>

\* imports; the first section also seeds numpy here
Import ==
    /\ pc = "import"
    /\ numpy_seed' = IF section = 1 THEN 7 ELSE numpy_seed
    /\ pc' = "load"
    /\ UNCHANGED <<section, datavars, modelvars, fitvars, fed, scores, normvars>>

\* (X_train, y_train), (X_test, y_test) = imdb.load_data(nb_words=top_words);
\* the second section seeds numpy in the same cell
LoadData ==
    /\ pc = "load"
    /\ numpy_seed' = IF section = 2 THEN 7 ELSE numpy_seed
    /\ X_train' = load_data(dataset.x_train, top_words)
    /\ y_train' = dataset.y_train
    /\ X_test' = load_data(dataset.x_test, top_words)
    /\ y_test' = dataset.y_test
    /\ pc' = "pad"
    /\ UNCHANGED <<section, dataset, max_review_length, modelvars, fitvars,
                   fed, scores, normvars>>

\* max_review_length = 500; X_train = pad_sequences(X_train, maxlen=...);
\* X_test = pad_sequences(X_test, maxlen=...)
PadSequences ==
    /\ pc = "pad"
    /\ max_review_length' = ReviewLen
    /\ X_train' = pad_sequences(X_train, max_review_length')
    /\ X_test' = pad_sequences(X_test, max_review_length')
    /\ pc' = "build"
    /\ UNCHANGED <<section, numpy_seed, dataset, y_train, y_test, modelvars,
                   fitvars, fed, scores, normvars>>

\* model = Sequential(); model.add(...); model.compile(...): a new model
\* with freshly drawn weights and a new optimizer
BuildModel ==
    /\ pc = "build"
    /\ model' = Sequential(section, max_review_length)
    /\ weights' \in 0..(WMod - 1)
    /\ iterations' = 0
    /\ calls' = <<>>
    /\ pc' = "fit"
    /\ UNCHANGED <<section, numpy_seed, datavars, epochs, batch_size,
                   validation_data, epoch, order, step, batches, history,
                   fed, scores, normvars>>

\* a fit that starts from newly initialised weights and a new optimizer
fit_start_reinitialised(m, w, it) == <<m, 0, 0>>

\* the model a fit call starts from: the model object as it is; fit builds
\* no layer, draws no weight and does not reset optimizer.iterations
fit_start(m, w, it) == <<m, w, it>>

\* model.fit(X_train, y_train, [validation_data=(X_test, y_test),]
\*           epochs=e, batch_size=b)
FitBegin ==
    /\ pc = "fit"
    /\ \E e \in 0..MaxEpochs, b \in 1..MaxBatch :
         /\ epochs' = e
         /\ batch_size' = b
         /\ calls' = Append(calls, [epochs |-> e, batch_size |-> b])
    /\ validation_data' = (section = 1)
    /\ epoch' = 0
    /\ step' = 0
    /\ order' = <<>>
    /\ batches' = <<>>
    /\ history' = <<>>
    /\ LET m == fit_start(model, weights, iterations)
       IN  /\ model' = m[1]
           /\ weights' = m[2]
           /\ iterations' = m[3]
    /\ pc' = "epoch"
    /\ UNCHANGED <<section, numpy_seed, datavars, fed, scores, normvars>>

\* model.fit(...) once more on the model the first call has trained, with
\* the same data and batch_size: the cell's fit statement run again without
\* the statements that build the model
FitAgain ==
    /\ pc = "evaluate"
    /\ Len(calls) = 1
    /\ \E e \in 0..MaxEpochs :
         /\ epochs' = e
         /\ calls' = Append(calls, [epochs |-> e, batch_size |-> batch_size])
    /\ epoch' = 0
    /\ step' = 0
    /\ order' = <<>>
    /\ batches' = <<>>
    /\ history' = <<>>
    /\ LET m == fit_start(model, weights, iterations)
       IN  /\ model' = m[1]
           /\ weights' = m[2]
           /\ iterations' = m[3]
    /\ pc' = "epoch"
    /\ UNCHANGED <<section, numpy_seed, datavars, batch_size, validation_data,
                   fed, scores, normvars>>

\* for epoch in range(epochs): the data of the epoch in a new order
EpochBegin ==
    /\ pc = "epoch"
    /\ MoreEpochs(epoch, epochs)
    /\ order' \in EpochOrders(Len(X_train))
    /\ step' = 0
    /\ batches' = <<>>
    /\ pc' = "step"
    /\ UNCHANGED <<section, numpy_seed, datavars, modelvars, calls, epochs,
                   batch_size, validation_data, epoch, history, fed, scores,
                   normvars>>

\* one batch of the epoch through train_step
TrainStep ==
    /\ pc = "step"
    /\ step < Steps(Len(X_train), batch_size)
    /\ LET idx == BatchIndices(order, step, batch_size)
           xb == Gather(X_train, idx)
           yb == Gather(y_train, idx)
       IN  /\ \E mask \in (IF HasDropout(model) THEN {0, 1} ELSE {0}) :
                 weights' = train_step(weights, xb, yb, mask).weights
           /\ batches' = Append(batches, idx)
           /\ fed' = xb
    /\ iterations' = iterations + 1
    /\ step' = step + 1
    /\ pc' = AfterBatch(step', Steps(Len(X_train), batch_size),
                         validation_data)
    /\ UNCHANGED <<section, numpy_seed, datavars, model, calls, epochs, batch_size,
                   validation_data, epoch, order, history, scores, normvars>>

\* the validation pass at the end of an epoch, over validation_data
Validate ==
    /\ pc = "validate"
    /\ LET r == Evaluation(X_test, y_test, weights, batch_size)
       IN  /\ weights' = r.weights
           /\ fed' = r.fed
           /\ history' = Append(history,
                                [steps |-> step,
                                 val_accuracy |-> <<r.total, r.count>>])
    /\ epoch' = epoch + 1
    /\ pc' = "epoch"
    /\ UNCHANGED <<section, numpy_seed, datavars, model, iterations, calls, epochs,
                   batch_size, validation_data, order, step, batches, scores,
                   normvars>>

\* an exception caught inside fit and answered by a normal return
uncaught_swallowed == "evaluate"

\* the cell that calls fit has no try/except: an exception leaves the
\* cell, and the cells after it are not run
uncaught == "error"

\* an exception raised by the library inside a training step or a
\* validation pass of fit; the step that raised applies no update, and the
\* iterator state of the call is gone with its frame
FitRaise ==
    /\ pc \in {"step", "validate"}
    /\ pc' = uncaught
    /\ order' = <<>>
    /\ step' = 0
    /\ batches' = <<>>
    /\ UNCHANGED <<section, numpy_seed, datavars, modelvars, calls, epochs,
                   batch_size, validation_data, epoch, history, fed, scores,
                   normvars>>

\* the end of an epoch of a fit call without validation_data
EpochEnd ==
    /\ pc = "epochend"
    /\ history' = Append(history, [steps |-> step, val_accuracy |-> <<>>])
    /\ epoch' = epoch + 1
    /\ pc' = "epoch"
    /\ UNCHANGED <<section, numpy_seed, datavars, modelvars, calls, epochs,
                   batch_size, validation_data, order, step, batches, fed,
                   scores, normvars>>

\* fit returns its History once range(epochs) is exhausted; the data
\* iterator of the call is gone with it
FitEnd ==
    /\ pc = "epoch"
    /\ ~MoreEpochs(epoch, epochs)
    /\ order' = <<>>
    /\ step' = 0
    /\ batches' = <<>>
    /\ pc' = "evaluate"
    /\ UNCHANGED <<section, numpy_seed, datavars, modelvars, calls, epochs,
                   batch_size, validation_data, epoch, history, fed, scores,
                   normvars>>

\* scores = model.evaluate(X_test, y_test, verbose=0); scores[1] is the
\* accuracy, kept as <<total, count>> (scores[0], the loss, is left out)
Evaluate ==
    /\ pc = "evaluate"
    /\ LET r == Evaluation(X_test, y_test, weights, EvalBatch)
       IN  /\ weights' = r.weights
           /\ fed' = r.fed
           /\ scores' = <<r.total, r.count>>
    /\ pc' = "report"
    /\ UNCHANGED <<section, numpy_seed, datavars, model, iterations, fitvars,
                   normvars>>

\* print("Accuracy: ..."), then on to the next section of the notebook
Report ==
    /\ pc = "report"
    /\ IF section < 3
       THEN /\ section' = section + 1
            /\ pc' = "import"
       ELSE /\ section' = section
            /\ pc' = "done"
    /\ UNCHANGED <<numpy_seed, datavars, modelvars, fitvars, fed, scores,
                   normvars>>

Next ==
    \/ Import
    \/ LoadData
    \/ PadSequences
    \/ BuildModel
    \/ FitBegin
    \/ EpochBegin
    \/ TrainStep
    \/ Validate
    \/ EpochEnd
    \/ FitRaise
    \/ FitEnd
    \/ Evaluate
    \/ Report

Spec == Init /\ [][Next]_vars

(***************************************************************************)
(* The first section of the notebook with its fit statement run a second   *)
(* time on the same model before the evaluation.                           *)
(***************************************************************************)
NextRefit ==
    \/ Import
    \/ LoadData
    \/ PadSequences
    \/ BuildModel
    \/ FitBegin
    \/ EpochBegin
    \/ TrainStep
    \/ Validate
    \/ FitRaise
    \/ FitEnd
    \/ FitAgain
    \/ Evaluate

SpecRefit == Init /\ [][NextRefit]_vars

(***************************************************************************)
(* Properties of pad_sequences on one review (specification SpecNorm).     *)
(***************************************************************************)
Normalized == npc # "in"

\* C1: a review longer than maxlen comes back as exactly its last maxlen
\* tokens, in their original order (the oldest Len - maxlen are dropped);
\* pad_sequences([[1,2,3,4,5]], 4) = [[2,3,4,5]].
C1_KeepsLastL ==
    /\ (Normalized /\ Len(seq) > maxlen) =>
         /\ Len(padded) = maxlen
         /\ \A i \in 1..maxlen : padded[i] = seq[Len(seq) - maxlen + i]
    /\ pad_sequences(<<(<<1, 2, 3, 4, 5>>)>>, 4) = <<(<<2, 3, 4, 5>>)>>

C1_Witness ==
    /\ npc = "out"
    /\ seq = <<1, 2, 3>>
    /\ maxlen = 2
    /\ padded = <<2, 3>>

\* C2: a review shorter than maxlen comes back maxlen long, its first
\* maxlen - Len entries are the sentinel 0 and its last Len entries are the
\* review; [1,2,3] -> [0,1,2,3] and [4,5] -> [0,0,4,5] for maxlen 4.
C2_LeftPadsWithZero ==
    /\ (Normalized /\ Len(seq) < maxlen) =>
         /\ Len(padded) = maxlen
         /\ \A i \in 1..(maxlen - Len(seq)) : padded[i] = 0
         /\ \A i \in 1..Len(seq) : padded[maxlen - Len(seq) + i] = seq[i]
    /\ pad_sequences(<<(<<1, 2, 3>>), (<<4, 5>>)>>, 4)
         = <<(<<0, 1, 2, 3>>), (<<0, 0, 4, 5>>)>>

C2_Witness ==
    /\ npc = "out"
    /\ seq = <<2, 1>>
    /\ maxlen = 3
    /\ padded = <<0, 2, 1>>

\* C3: a review of exactly maxlen tokens comes back unchanged.
C3_ExactLengthUnchanged ==
    (Normalized /\ Len(seq) = maxlen) => padded = seq

C3_Witness ==
    /\ npc = "out"
    /\ seq = <<3, 1>>
    /\ maxlen = 2
    /\ padded = <<3, 1>>

\* C4: applying pad_sequences to its own output with the same maxlen gives
\* that output back, whatever the length of the original review.
C4_Idempotent ==
    npc = "again" => repadded = padded

C4_Witness ==
    /\ npc = "again"
    /\ Len(seq) > maxlen
    /\ repadded = padded
    /\ padded # seq

\* a review without the token 0
ZeroFree(s) == \A i \in DOMAIN s : s[i] # 0

\* C21: on reviews no longer than maxlen that hold no 0, pad_sequences
\* loses nothing: a zero-free review of length <= maxlen with the same
\* padded form as seq is seq.  With 0 allowed this fails, 0 being the fill
\* value: a review that begins with 0 is padded to the same row as the
\* review without that 0, as [1,2] and [0,1,2] are for maxlen 4.
C21_ZeroFreeShortInjective ==
    /\ (Normalized /\ Len(seq) <= maxlen /\ ZeroFree(seq)) =>
         (\A t \in SeqsUpTo(maxlen, 1..MaxTok) :
             (pad_sequences(<<t>>, maxlen)[1] = padded) => (t = seq))
    /\ (Normalized /\ Len(seq) <= maxlen /\ seq # <<>> /\ seq[1] = 0) =>
         /\ Tail(seq) # seq
         /\ pad_sequences(<<Tail(seq)>>, maxlen)[1] = padded
    /\ pad_sequences(<< <<1, 2>> >>, 4)[1]
         = pad_sequences(<< <<0, 1, 2>> >>, 4)[1]

C21_Witness ==
    /\ Normalized
    /\ ZeroFree(seq)
    /\ Len(seq) = 2
    /\ maxlen = 3
    /\ padded = <<0>> \o seq
    /\ padded = pad_sequences(<< <<0>> \o seq >>, maxlen)[1]

(***************************************************************************)
(* Properties of the notebook run (specification Spec).                    *)
(***************************************************************************)
InFit == pc \in {"epoch", "step", "validate", "epochend"}

\* ceil(n / b), stated by its defining inequalities
CeilDiv(n, b) == CHOOSE k \in 0..n : k * b >= n /\ (k - 1) * b < n

\* C5: every review handed to the model by a training step, a validation
\* pass or the final evaluation has exactly max_review_length entries, the
\* input length the model was declared with; from the first fit call of a
\* section on, both partitions hold only reviews of that length.
C5_FedReviewsHaveLengthL ==
    /\ \A i \in DOMAIN fed :
         /\ Len(fed[i]) = max_review_length
         /\ Len(fed[i]) = model.input_length
    /\ (InFit \/ pc \in {"fit", "evaluate"}) =>
         /\ model.input_length = max_review_length
         /\ \A i \in DOMAIN X_train : Len(X_train[i]) = max_review_length
         /\ \A i \in DOMAIN X_test : Len(X_test[i]) = max_review_length

C5_Witness ==
    /\ pc = "report"
    /\ section = 3
    /\ fed = X_test
    /\ epochs > 0
    /\ \E i \in DOMAIN dataset.x_test :
         Len(load_data(dataset.x_test, top_words)[i]) > max_review_length
    /\ \E i \in DOMAIN dataset.x_train :
         Len(load_data(dataset.x_train, top_words)[i]) < max_review_length

\* C6: the accuracy evaluate returns is total / count with count the
\* number of test pairs (at least one) and total the number of pairs whose
\* predicted probability, thresholded at 0.5, gives the true label; so it
\* lies in [0, 1].
C6_AccuracyIsFractionOfMatches ==
    pc = "report" =>
      /\ Len(scores) = 2
      /\ scores[2] = Len(X_test)
      /\ scores[2] >= 1
      /\ scores[1] >= 0 /\ scores[1] <= scores[2]
      /\ scores[1] = Cardinality(
           {i \in DOMAIN X_test :
              (IF Forward(weights, X_test[i]) > 500 THEN 1 ELSE 0) = y_test[i]})

C6_Witness ==
    /\ pc = "report"
    /\ scores[2] > EvalBatch
    /\ scores[1] > 0
    /\ scores[1] < scores[2]
    /\ \E i \in DOMAIN X_test : Forward(weights, X_test[i]) = 500

\* C7: the evaluate call changes neither the layer stack nor any learned
\* parameter nor the test pairs, so evaluating again in the state it
\* leaves returns the accuracy it returned.
C7_EvaluateReadOnly ==
    [][pc = "evaluate" =>
         /\ model' = model
         /\ weights' = weights
         /\ iterations' = iterations
         /\ X_test' = X_test
         /\ y_test' = y_test
         /\ LET again == Evaluation(X_test', y_test', weights', EvalBatch)
            IN  scores' = <<again.total, again.count>>]_vars

C7_Witness ==
    /\ pc = "report"
    /\ section = 2
    /\ iterations >= 2
    /\ scores[2] = Len(X_test)

\* C8: a fit call with epochs = 0 runs no batch step and changes no
\* learned parameter between the call and its return.
C8_ZeroEpochsNoUpdate ==
    [][((pc = "fit" /\ epochs' = 0) \/ (InFit /\ epochs = 0)) =>
         /\ weights' = weights
         /\ iterations' = iterations
         /\ pc' \in {"epoch", "evaluate"}]_vars

C8_Witness ==
    /\ pc = "evaluate"
    /\ section = 1
    /\ epochs = 0
    /\ iterations = 0
    /\ history = <<>>

\* the batches of the running epoch, as far as they have been drawn, are
\* full except possibly the last, and number at most ceil(N / batch_size)
BatchShapes ==
    LET n == Len(X_train)
    IN  /\ Len(batches) <= CeilDiv(n, batch_size)
        /\ \A k \in DOMAIN batches :
             /\ Len(batches[k]) >= 1
             /\ Len(batches[k]) <= batch_size
             /\ k < CeilDiv(n, batch_size) => Len(batches[k]) = batch_size
        /\ pc \in {"validate", "epochend"} =>
             Len(batches) = CeilDiv(n, batch_size)

\* C9 as stated: the batches are consecutive runs of the training pairs in
\* their stored order.
C9_BatchesInStoredOrder ==
    (pc \in {"step", "validate", "epochend"}) =>
      /\ BatchShapes
      /\ \A k \in DOMAIN batches : \A j \in DOMAIN batches[k] :
           batches[k][j] = (k - 1) * batch_size + j

\* C9 amended: in each epoch the batches are consecutive runs of that
\* epoch's order of the training pairs, a permutation drawn anew for the
\* epoch; they cover every pair exactly once, all but possibly the last have
\* batch_size pairs, the last has 1..batch_size, and there are
\* ceil(N / batch_size) of them (391 for 25000 pairs in batches of 64).
C9_BatchesCoverEpochOnce ==
    /\ (pc \in {"step", "validate", "epochend"}) =>
         /\ BatchShapes
         /\ \A k \in DOMAIN batches : \A j \in DOMAIN batches[k] :
              batches[k][j] = order[(k - 1) * batch_size + j]
         /\ \A i \in DOMAIN X_train :
              Cardinality({kj \in (DOMAIN batches) \X (1..batch_size) :
                             /\ kj[2] <= Len(batches[kj[1]])
                             /\ batches[kj[1]][kj[2]] = i})
                <= 1
    /\ (pc \in {"validate", "epochend"}) =>
         \A i \in DOMAIN X_train :
           \E k \in DOMAIN batches : \E j \in DOMAIN batches[k] :
             batches[k][j] = i
    /\ Steps(25000, 64) = 391

C9_Witness ==
    /\ pc = "epochend"
    /\ Len(X_train) = 3
    /\ batch_size = 2
    /\ batches = <<(<<3, 1>>), (<<2>>)>>

\* progress measure of a fit call: what is left of range(epochs)
FitMeasure(p, e, s) ==
    LET S == CeilDiv(Len(X_train), batch_size)
        pos == CASE p = "epoch" -> 0
                 [] p = "step" -> 1 + s
                 [] OTHER -> S + 1
    IN  (epochs - e) * (S + 2) - pos

\* a step of a running fit call that either returns, with range(epochs)
\* exhausted, or stays in the call and brings its end nearer
FitProgress ==
    /\ pc' \in {"epoch", "step", "validate", "epochend", "evaluate", "error"}
    /\ pc' = "evaluate" => epoch = epochs
    /\ pc' \notin {"evaluate", "error"} =>
         /\ FitMeasure(pc', epoch', step') < FitMeasure(pc, epoch, step)
         /\ FitMeasure(pc', epoch', step') >= 0

\* the counters of a fit call: inside the call the next batch or the end
\* of the epoch is always due; at the return range(epochs) is exhausted
C10_Counts ==
    /\ InFit =>
         /\ pc = "step" => step < CeilDiv(Len(X_train), batch_size)
         /\ pc \in {"validate", "epochend"} =>
              step = CeilDiv(Len(X_train), batch_size)
         /\ epoch <= epochs
         /\ pc # "epoch" => epoch < epochs
         /\ Len(history) = epoch
         /\ iterations =
              epoch * CeilDiv(Len(X_train), batch_size)
                + (IF pc = "epoch" THEN 0 ELSE step)
    /\ pc = "evaluate" =>
         /\ epoch = epochs
         /\ Len(history) = epochs
         /\ \A e \in DOMAIN history :
              history[e].steps = CeilDiv(Len(X_train), batch_size)
         /\ iterations = epochs * CeilDiv(Len(X_train), batch_size)

\* C10: a fit call for E epochs with batch size B on N pairs ends, and ends
\* only, after E epochs and E * ceil(N / B) update steps: every step inside
\* the call brings its end nearer or is its return with range(epochs)
\* exhausted, and at the return the optimizer has applied exactly
\* E * ceil(N / B) updates in E epochs.
C10_FixedIteration ==
    /\ []C10_Counts
    /\ [][InFit => FitProgress]_vars

C10_Witness ==
    /\ pc = "evaluate"
    /\ section = 3
    /\ epochs = 2
    /\ batch_size = 2
    /\ Len(X_train) = 3
    /\ iterations = 4

\* C11: the validation pass of fit changes no learned parameter (the
\* parameters after it are those left by the epoch's last training batch),
\* and validation_data is the same after fit as before the call.
C11_ValidationReadOnly ==
    [][/\ pc = "validate" =>
            /\ weights' = weights
            /\ iterations' = iterations
            /\ model' = model
       /\ (pc = "fit" \/ InFit) =>
            /\ X_test' = X_test
            /\ y_test' = y_test]_vars

C11_Witness ==
    /\ pc = "epoch"
    /\ section = 1
    /\ validation_data
    /\ epoch = 1
    /\ iterations > 0
    /\ Len(history) = 1
    /\ history[1].val_accuracy # <<>>
    /\ X_test = pad_sequences(load_data(dataset.x_test, top_words),
                              max_review_length)

\* C12: with validation_data, a History record is written exactly by a
\* validation pass; the pass runs once per epoch, right after the epoch's
\* last training batch and before the next epoch begins, and record e is
\* that of epoch e; fit returns with one validation record per epoch. (A
\* pass that raises writes no record and ends the call.)
C12_OneValidationPerEpoch ==
    [][(validation_data /\ InFit) =>
         /\ (pc = "validate" /\ pc' # "error")
              <=> (Len(history') = Len(history) + 1)
         /\ (pc # "validate" \/ pc' = "error") => history' = history
         /\ (pc = "validate" /\ pc' # "error") =>
              /\ step = CeilDiv(Len(X_train), batch_size)
              /\ Len(batches) = CeilDiv(Len(X_train), batch_size)
              /\ pc' = "epoch"
              /\ epoch' = epoch + 1
              /\ Len(history') = epoch'
              /\ history'[epoch'].val_accuracy # <<>>
              /\ SubSeq(history', 1, epoch) = history
         /\ (pc = "step" /\ step' = CeilDiv(Len(X_train), batch_size)
               /\ pc' # "error") => pc' = "validate"
         /\ (pc' = "step" /\ pc # "step") =>
              /\ pc = "epoch"
              /\ Len(history) = epoch
         /\ pc' = "evaluate" =>
              /\ Len(history) = epochs
              /\ \A e \in DOMAIN history : history[e].val_accuracy # <<>>]_vars

C12_Witness ==
    /\ pc = "evaluate"
    /\ section = 1
    /\ epochs = 2
    /\ batch_size = 1
    /\ Len(X_train) = 3
    /\ Len(history) = 2
    /\ history[1].val_accuracy # <<>>
    /\ history[2].val_accuracy # <<>>

\* C14: a fit call has two outcomes only. It returns with all requested
\* epochs done and one History record per epoch, or it raises: the exception
\* leaves the call, and no batch, retry, return or later cell follows it.
\* Inside the call every step that does not raise is the next batch or the
\* end of the epoch, never a repeated one.
C14_NoPartialSuccess ==
    [][/\ pc # "error"
       /\ InFit =>
            /\ pc' \in {"epoch", "step", "validate", "epochend",
                        "evaluate", "error"}
            /\ pc' = "evaluate" =>
                 /\ epoch = epochs
                 /\ Len(history') = epochs
                 /\ weights' = weights
            /\ pc' = "error" =>
                 /\ epoch < epochs
                 /\ Len(history') < epochs
                 /\ scores' = scores
            /\ (pc = "step" /\ pc' # "error") =>
                 /\ step' = step + 1
                 /\ iterations' = iterations + 1
       /\ pc \in {"evaluate", "report"} =>
            /\ epoch = epochs
            /\ Len(history) = epochs]_vars

C14_Witness ==
    /\ pc = "error"
    /\ section = 2
    /\ epochs = 2
    /\ epoch = 1
    /\ Len(history) = 1
    /\ iterations > 0
    /\ scores # <<>>

\* a review of the data file all of whose word indices lie in [0, top_words)
InVocabulary(x) ==
    \A j \in DOMAIN x : x[j] + index_from \in 0..(top_words - 1)

RECURSIVE TotalSteps(_, _)
TotalSteps(cs, n) ==
    IF cs = <<>> THEN 0
    ELSE Head(cs).epochs * CeilDiv(n, Head(cs).batch_size)
           + TotalSteps(Tail(cs), n)

\* C16: a second fit call on the same model starts from the weights and
\* the optimizer state the first call left (nothing is reinitialised), so
\* after calls of E1 and then E2 epochs the model has had
\* (E1 + E2) * ceil(N / B) update steps; the layer stack is the same
\* before and after each call.
C16_FitContinues ==
    [][/\ (pc \in {"fit", "evaluate"} /\ pc' = "epoch") =>
            /\ weights' = weights
            /\ iterations' = iterations
            /\ model' = model
       /\ (pc = "fit" \/ InFit) => model' = model
       /\ (InFit /\ pc' = "evaluate") =>
            /\ iterations' = TotalSteps(calls, Len(X_train))
            /\ Len(calls) = 2 =>
                 iterations' = (calls[1].epochs + calls[2].epochs)
                                 * CeilDiv(Len(X_train), batch_size)
            /\ model' = Sequential(section, max_review_length)]_vars

C16_Witness ==
    /\ pc = "evaluate"
    /\ Len(calls) = 2
    /\ calls[1].epochs = 1
    /\ calls[2].epochs = 2
    /\ batch_size = 2
    /\ Len(X_train) = 3
    /\ iterations = 6

\* C17 as stated: with the seed, the data, the layer stack, epochs and
\* batch_size fixed, every random draw of the run has one outcome only.
\* The state holds all of these, so in any state at most one initial
\* weight value, one order of the epoch and one result of the training
\* step (that is, one dropout mask) is possible.
C17_SeedDeterminesRun ==
    /\ (pc = "build" /\ numpy_seed = 7) =>
         \E w \in 0..(WMod - 1) : ~ENABLED (BuildModel /\ weights' # w)
    /\ (pc = "epoch" /\ numpy_seed = 7) =>
         \E o \in EpochOrders(Len(X_train)) :
            ~ENABLED (EpochBegin /\ order' # o)
    /\ (pc = "step" /\ numpy_seed = 7) =>
         \E w \in 0..(WMod - 1) : ~ENABLED (TrainStep /\ weights' # w)

\* C18 as stated: the CNN + LSTM model has fewer learned weights than the
\* simple LSTM model built with the same top_words, embedding width and
\* review length.
C18_CnnHasFewerWeights ==
    (section = 3 /\ pc = "fit") =>
       TotalParams(model.layers, <<model.input_length>>)
         < TotalParams(LayerStack(1), <<model.input_length>>)

\* C19: in the CNN + LSTM stack the embedding maps L tokens to L x 32, the
\* convolution keeps the length and emits 32 channels, the pooling halves
\* the length (floor(L / 2)) and keeps the channels, the LSTM emits its
\* final state of width 100 and the output layer one scalar; for L = 500
\* the shapes are 500 x 32, 500 x 32, 250 x 32, 100, 1 and the parameter
\* counts 160000, 3104, 0, 53200, 101.
C19_ShapesAndCounts ==
    (section = 3 /\ pc \in {"fit", "epoch", "step", "epochend", "evaluate",
                            "report", "done", "error"}) =>
       /\ Shapes(model.layers, <<500>>)
            = << <<500, 32>>, <<500, 32>>, <<250, 32>>, <<100>>, <<1>> >>
       /\ ParamCounts(model.layers, <<500>>)
            = <<top_words * embedding_vecor_length, 3 * 32 * 32 + 32, 0,
                4 * 100 * (32 + 100 + 1), 100 + 1>>
       /\ ParamCounts(model.layers, <<500>>)
            = <<160000, 3104, 0, 53200, 101>>
       /\ \A L \in {model.input_length, 2 * model.input_length,
                    2 * model.input_length + 1} :
            Shapes(model.layers, <<L>>)
              = << <<L, 32>>, <<L, 32>>, <<L \div 2, 32>>, <<100>>, <<1>> >>

C19_Witness ==
    /\ section = 3
    /\ pc = "fit"
    /\ model.input_length = max_review_length
    /\ Len(model.layers) = 5
    /\ model.layers[2].type = "Conv1D"
    /\ model.layers[3].type = "MaxPooling1D"

\* C20: in the first section, where fit validates on the pairs that
\* evaluate is given afterwards, the accuracy evaluate returns equals the
\* validation accuracy of the last epoch: nothing changes the weights
\* between that validation pass and the evaluate call.
C20_EvaluateEqualsLastValidation ==
    /\ (pc = "report" /\ section = 1 /\ epochs >= 1) =>
         /\ Len(history) = epochs
         /\ scores = history[Len(history)].val_accuracy
    /\ (pc = "evaluate" /\ section = 1 /\ epochs >= 1) =>
         history[Len(history)].val_accuracy
           = LET r == Evaluation(X_test, y_test, weights, EvalBatch)
             IN  <<r.total, r.count>>

C20_Witness ==
    /\ pc = "report"
    /\ section = 1
    /\ epochs = 2
    /\ iterations > 0
    /\ Len(X_test) = 3
    /\ scores[1] > 0
    /\ scores[1] < scores[2]
    /\ history[1].val_accuracy # history[2].val_accuracy
    /\ scores = history[2].val_accuracy

====
